---- MODULE Spec2Model ----
(***************************************************************************)
(* Master/worker protocol of noaa_scrapper.py: Master.start(),             *)
(* Master.stop(), main() and Worker.run(), with the job channel            *)
(* (Master.queue), the done channel (Master.queue_done), the worker        *)
(* processes, the output files ./<year> and the temp directories           *)
(* <tmp_dir>/<year>.                                                       *)
(***************************************************************************)
EXTENDS Integers, Sequences, FiniteSets, TLC

(***************************************************************************)
(* Bounds of the model and constants of the program.                       *)
(***************************************************************************)
\* DEFAULT_YEARS = ['1901', '1902']: the years the index document and
\* --years range over
FirstYear == 1901
LastYear == 1902
\* Config.DEFAULT_WORKERS_COUNT
WorkersCount == 2
\* Config.DEFAULT_POLLING_TIMEOUT (seconds)
PollingTimeout == 2
\* Config.DEFAULT_TERMINATE_TIMEOUT (seconds)
TerminateTimeout == 2
\* conf.run_time_max (seconds); scenario C of the spec runs with 1
RunTimeMax == 1
\* Queue() is built with maxsize=0, which multiprocessing turns into
\* SEM_VALUE_MAX slots
QueueMaxSize == 2147483647
\* how many worker processes the environment may kill (SIGKILL from outside)
MaxExtKills == 1
\* how many members the tarballs of AggSpec have at most
MaxMembers == 2

Years == FirstYear..LastYear
Workers == 0..(WorkersCount - 1)

\* HTTP statuses the index GET may answer with
IndexStatuses == {200, 304, 404}
\* HTTP statuses an archive GET may answer with
ArchiveStatuses == {200, 500}

(***************************************************************************)
(* Pure helpers.                                                           *)
(***************************************************************************)
\* IsSuccess without its upper limit
IsSuccessNoUpper(status) == 200 <= status

\* `200 <= res.status_code < 300`
IsSuccess(status) == 200 <= status /\ status < 300

\* requests.Response.raise_for_status(): raises HTTPError exactly for the
\* client errors (400..499) and the server errors (500..599)
RaiseForStatusRaises(status) == 400 <= status /\ status < 600

\* Member names are sequences over the character classes "d" (a digit),
\* "-" and "x" (any other character).
RECURSIVE SkipDigits(_, _)
SkipDigits(name, i) ==
    IF i <= Len(name) /\ name[i] = "d" THEN SkipDigits(name, i + 1) ELSE i

\* re.match(r'\d+-\d+-\d+', name): the pattern must match at the start of
\* the name; anything may follow
MatchMember(name) ==
    LET a == SkipDigits(name, 1)
        b == SkipDigits(name, a + 1)
        c == SkipDigits(name, b + 1)
    IN  /\ a > 1
        /\ a <= Len(name) /\ name[a] = "-"
        /\ b > a + 1
        /\ b <= Len(name) /\ name[b] = "-"
        /\ c > b + 1

\* A tarball: its members in listing order, each with a name and the bytes
\* of its file (one number stands for the whole content). The tarball of
\* Spec: a station file and a file of another kind.
DefaultMembers ==
    << [name |-> <<"d", "-", "d", "-", "d">>, bytes |-> 1],
       [name |-> <<"x", "x">>, bytes |-> 2] >>

\* Names of members: a station file (010010-99999-1901), a name that only
\* starts like one (010010-99999-1901.txt), and a name with two groups of
\* digits (010010-99999).
MemberNames ==
    { <<"d", "-", "d", "-", "d">>,
      <<"d", "-", "d", "-", "d", "x">>,
      <<"d", "-", "d">> }

\* The tarballs of AggSpec: up to MaxMembers members with any of these
\* names, also the same name twice; the bytes of a member are its position.
MemberLists ==
    UNION { { [i \in 1..n |-> [name |-> f[i], bytes |-> i]] :
                f \in [1..n -> MemberNames] } : n \in 0..MaxMembers }

\* no file at the output path
Absent == [isfile |-> FALSE, bytes |-> <<>>]
\* an output file left by an earlier run
Stale == [isfile |-> TRUE, bytes |-> <<0>>]

\* no directory <tmp_dir>/<year>
NoDir == [isdir |-> FALSE, files |-> {}]

Warning(msg, arg) == [msg |-> msg, arg |-> arg]

VARIABLES
    years,        \* conf.years, as a set
    force,        \* conf.force
    archive,      \* year -> the tarball the remote serves for the year
    outfile0,     \* year -> the output file ./<year> when the run starts
    mpc,          \* where main() / Master.start() / Master.stop() is
    res,          \* status of the index response (0: no response yet)
    body,         \* years of the archive names in the index document
    index,        \* keys of `index` (the filename is a function of the year)
    indexBuilt,   \* TRUE once lines 269-273 have run
    workers,      \* numbers n with self.workers[n] not None
    pending,      \* `pending` of start()
    todo,         \* years the loop of line 289 has still to visit
    elapsed,      \* monotonic() - start, saturated at RunTimeMax + 1
    sleepLeft,    \* seconds left of the sleep() the master is in
    pos,          \* index of the loops of stop()
    closed,       \* queue.close() and queue_done.close() were called
    startResult,  \* how start() ended ("none": it has not)
    mainResult,   \* what main() handed to its caller ("none": not yet)
    stopCalls,    \* number of calls of stop()
    queue,        \* JobChannel: years of the jobs, FIFO
    queue_done,   \* DoneChannel: years, FIFO
    alive,        \* Worker.is_alive()
    wpc,          \* where Worker.run() is
    wjob,         \* the year the worker is processing (0: none)
    wres,         \* status of the archive response (0: none)
    wdata,        \* names of `data` not yet aggregated
    sig,          \* signal sent to the worker by stop(): none, term, kill
    outfile,      \* year -> the output file ./<year>
    tmpdir,       \* year -> the directory <tmp_dir>/<year> and its files
    warnings,     \* LOG.warning records
    enqueued,     \* year -> number of puts on JobChannel
    accepted,     \* year -> number of gets from JobChannel
    emitted,      \* year -> number of puts on DoneChannel
    drained,      \* years the master has taken from DoneChannel
    extKilled     \* workers killed by the environment

vars == << years, force, archive, outfile0, mpc, res, body, index, indexBuilt, workers, pending,
           todo, elapsed, sleepLeft, pos, closed, startResult, mainResult,
           stopCalls, queue, queue_done, alive, wpc, wjob, wres, wdata, sig,
           outfile, tmpdir, warnings, enqueued, accepted, emitted, drained,
           extKilled >>

masterVars == << mpc, res, body, index, indexBuilt, workers, pending, todo,
                 pos, closed, startResult, mainResult, stopCalls >>
workerVars == << wpc, wjob, wres, wdata >>
fsVars == << outfile, tmpdir >>
confVars == << years, force, archive, outfile0 >>
timeVars == << elapsed, sleepLeft >>

\* pcs of the poll loop of start() (lines 297-308)
LoopPcs == {"while", "deadline", "liveness", "drain", "sleeping"}
\* pcs of start()
StartPcs == {"get_index", "check_index", "spawn", "pending", "enqueue",
             "clock"} \cup LoopPcs
\* pcs of stop()
StopPcs == {"stop", "terminate", "grace", "kill"}

\* tar.getmembers() of the tarball of a year
Archive(year) == archive[year]

\* The state when main() begins, for the given choices of conf.years and of
\* the tarballs.
Start(yearSets, archives) ==
    /\ years \in yearSets
    /\ archive \in archives
    /\ force \in BOOLEAN
    /\ mpc = "get_index"
    /\ res = 0
    /\ body = {}
    /\ index = {}
    /\ indexBuilt = FALSE
    /\ workers = {}
    /\ pending = {}
    /\ todo = {}
    /\ elapsed = 0
    /\ sleepLeft = 0
    /\ pos = 0
    /\ closed = FALSE
    /\ startResult = "none"
    /\ mainResult = "none"
    /\ stopCalls = 0
    /\ queue = <<>>
    /\ queue_done = <<>>
    /\ alive = [w \in Workers |-> FALSE]
    /\ wpc = [w \in Workers |-> "unborn"]
    /\ wjob = [w \in Workers |-> 0]
    /\ wres = [w \in Workers |-> 0]
    /\ wdata = [w \in Workers |-> <<>>]
    /\ sig = [w \in Workers |-> "none"]
    /\ outfile \in [Years -> {Absent, Stale}]
    /\ \A y \in Years \ years : outfile[y] = Absent
    /\ outfile0 = outfile
    /\ tmpdir = [y \in Years |-> NoDir]
    /\ warnings = {}
    /\ enqueued = [y \in Years |-> 0]
    /\ accepted = [y \in Years |-> 0]
    /\ emitted = [y \in Years |-> 0]
    /\ drained = {}
    /\ extKilled = {}

\* any request of the default years, each year with the default tarball
Init == Start((SUBSET Years) \ {{}}, {[y \in Years |-> DefaultMembers]})

\* --years 1901, the tarball of 1901 being any of MemberLists
AggInit ==
    Start({{FirstYear}},
          {[y \in Years |-> IF y = FirstYear THEN m ELSE DefaultMembers] :
              m \in MemberLists})

(***************************************************************************)
(* main() and Master.start()                                               *)
(***************************************************************************)
\* Finally as an `else` clause: stop() only after a start() that returned
FinallyOnlyOnSuccess(outcome) == IF outcome = "success" THEN "stop" ELSE "exit"

\* main(): `try: master.start() finally: master.stop()`; where control goes
\* when start() ends with `outcome`
Finally(outcome) == "stop"

\* start() returns ("success") or raises
EndStart(outcome) ==
    /\ startResult' = outcome
    /\ mpc' = Finally(outcome)

\* line 265: res = get(self.conf.url); only a success response carries the
\* listing (the body of any other response names no archive)
MasterGetIndex ==
    /\ mpc = "get_index"
    /\ \E s \in IndexStatuses, b \in SUBSET Years :
        /\ IsSuccess(s) \/ b = {}
        /\ res' = s
        /\ body' = b
    /\ mpc' = "check_index"
    /\ UNCHANGED << index, indexBuilt, workers, pending, todo, pos, closed,
                    startResult, mainResult, stopCalls >>
    /\ UNCHANGED << confVars, timeVars, queue, queue_done, alive, workerVars,
                    sig, fsVars, warnings, enqueued, accepted, emitted,
                    drained, extKilled >>

\* lines 266-273: the status check, then the index is built from res.text
MasterCheckIndex ==
    /\ mpc = "check_index"
    /\ IF ~IsSuccess(res) /\ RaiseForStatusRaises(res)
       THEN /\ EndStart("IndexFetchError")
            /\ UNCHANGED << index, indexBuilt, pos >>
       ELSE /\ index' = body
            /\ indexBuilt' = TRUE
            /\ pos' = 0
            /\ mpc' = "spawn"
            /\ UNCHANGED startResult
    /\ UNCHANGED << res, body, workers, pending, todo, closed, mainResult,
                    stopCalls >>
    /\ UNCHANGED << confVars, timeVars, queue, queue_done, alive, workerVars,
                    sig, fsVars, warnings, enqueued, accepted, emitted,
                    drained, extKilled >>

\* lines 275-278: one iteration of the spawn loop, worker number `pos`
MasterSpawn ==
    /\ mpc = "spawn"
    /\ pos < WorkersCount
    /\ workers' = workers \cup {pos}
    /\ alive' = [alive EXCEPT ![pos] = TRUE]
    /\ wpc' = [wpc EXCEPT ![pos] = "get"]
    /\ pos' = pos + 1
    /\ mpc' = IF pos + 1 = WorkersCount THEN "pending" ELSE "spawn"
    /\ UNCHANGED << res, body, index, indexBuilt, pending, todo, closed,
                    startResult, mainResult, stopCalls >>
    /\ UNCHANGED << confVars, timeVars, queue, queue_done, wjob, wres, wdata,
                    sig, fsVars, warnings, enqueued, accepted, emitted,
                    drained, extKilled >>

\* MasterPending without the `if not pending` of lines 281-287
MasterPendingNoCheck ==
    /\ mpc = "pending"
    /\ pending' = {y \in years : y \in index}
    /\ todo' = pending'
    /\ mpc' = "enqueue"
    /\ UNCHANGED << warnings, startResult >>
    /\ UNCHANGED << res, body, index, indexBuilt, workers, pos, closed,
                    mainResult, stopCalls >>
    /\ UNCHANGED << confVars, timeVars, queue, queue_done, alive, workerVars,
                    sig, fsVars, enqueued, accepted, emitted, drained,
                    extKilled >>

\* lines 280-287: pending = {year for year in years if year in index}
MasterPending ==
    /\ mpc = "pending"
    /\ pending' = {y \in years : y \in index}
    /\ IF pending' = {}
       THEN /\ warnings' = warnings \cup {Warning("Cannot fetch", years)}
            /\ EndStart("NoWorkError")
            /\ UNCHANGED todo
       ELSE /\ todo' = pending'
            /\ mpc' = "enqueue"
            /\ UNCHANGED << warnings, startResult >>
    /\ UNCHANGED << res, body, index, indexBuilt, workers, pos, closed,
                    mainResult, stopCalls >>
    /\ UNCHANGED << confVars, timeVars, queue, queue_done, alive, workerVars,
                    sig, fsVars, enqueued, accepted, emitted, drained,
                    extKilled >>

\* MasterEnqueue taking every put for a put on a full queue
MasterEnqueueDrop ==
    /\ mpc = "enqueue"
    /\ \E y \in todo :
        /\ warnings' = warnings \cup {Warning("queue is full", {y})}
        /\ UNCHANGED << queue, enqueued >>
        /\ todo' = todo \ {y}
    /\ mpc' = IF todo' = {} THEN "clock" ELSE "enqueue"
    /\ UNCHANGED << res, body, index, indexBuilt, workers, pending, pos,
                    closed, startResult, mainResult, stopCalls >>
    /\ UNCHANGED << confVars, timeVars, queue_done, alive, workerVars, sig,
                    fsVars, accepted, emitted, drained, extKilled >>

\* lines 289-294: one iteration of `for year in pending`, in any order;
\* put(block=False) raises Full when the queue holds QueueMaxSize jobs
MasterEnqueue ==
    /\ mpc = "enqueue"
    /\ \E y \in todo :
        /\ IF Len(queue) < QueueMaxSize
           THEN /\ queue' = Append(queue, y)
                /\ enqueued' = [enqueued EXCEPT ![y] = @ + 1]
                /\ UNCHANGED warnings
           ELSE /\ warnings' = warnings \cup {Warning("queue is full", {y})}
                /\ UNCHANGED << queue, enqueued >>
        /\ todo' = todo \ {y}
    /\ mpc' = IF todo' = {} THEN "clock" ELSE "enqueue"
    /\ UNCHANGED << res, body, index, indexBuilt, workers, pending, pos,
                    closed, startResult, mainResult, stopCalls >>
    /\ UNCHANGED << confVars, timeVars, queue_done, alive, workerVars, sig,
                    fsVars, accepted, emitted, drained, extKilled >>

\* line 296: start = monotonic()
MasterClock ==
    /\ mpc = "clock"
    /\ elapsed' = 0
    /\ mpc' = "while"
    /\ UNCHANGED << res, body, index, indexBuilt, workers, pending, todo, pos,
                    closed, startResult, mainResult, stopCalls >>
    /\ UNCHANGED << confVars, sleepLeft, queue, queue_done, alive, workerVars,
                    sig, fsVars, warnings, enqueued, accepted, emitted,
                    drained, extKilled >>

masterRest == << res, body, index, indexBuilt, workers, todo, pos, closed,
                 mainResult, stopCalls >>
othersOfLoop == << confVars, queue, alive, workerVars, sig, fsVars, warnings,
                   enqueued, accepted, emitted, extKilled >>

\* lines 297 and 310: `while pending:`, and the return after the loop
MasterWhile ==
    /\ mpc = "while"
    /\ IF pending = {}
       THEN EndStart("success")
       ELSE mpc' = "deadline" /\ UNCHANGED startResult
    /\ UNCHANGED << masterRest, othersOfLoop, pending, timeVars, queue_done,
                    drained >>

\* MasterDeadline without the raise of line 299
MasterDeadlineNever ==
    /\ mpc = "deadline"
    /\ mpc' = "liveness"
    /\ UNCHANGED << masterRest, othersOfLoop, pending, startResult, timeVars,
                    queue_done, drained >>

\* lines 298-299: the deadline check
MasterDeadline ==
    /\ mpc = "deadline"
    /\ IF elapsed > RunTimeMax
       THEN EndStart("DeadlineExceededError")
       ELSE mpc' = "liveness" /\ UNCHANGED startResult
    /\ UNCHANGED << masterRest, othersOfLoop, pending, timeVars, queue_done,
                    drained >>

\* MasterLiveness with all() in place of any()
MasterLivenessAll ==
    /\ mpc = "liveness"
    /\ IF \A w \in workers : ~alive[w]
       THEN EndStart("WorkerDiedError")
       ELSE mpc' = "drain" /\ UNCHANGED startResult
    /\ UNCHANGED << masterRest, othersOfLoop, pending, timeVars, queue_done,
                    drained >>

\* lines 301-302: the liveness check
MasterLiveness ==
    /\ mpc = "liveness"
    /\ IF \E w \in workers : ~alive[w]
       THEN EndStart("WorkerDiedError")
       ELSE mpc' = "drain" /\ UNCHANGED startResult
    /\ UNCHANGED << masterRest, othersOfLoop, pending, timeVars, queue_done,
                    drained >>

\* MasterDrain with pending.clear() in place of pending.discard()
MasterDrainClear ==
    /\ mpc = "drain"
    /\ queue_done # <<>>
    /\ pending' = {}
    /\ drained' = drained \cup {Head(queue_done)}
    /\ queue_done' = Tail(queue_done)
    /\ UNCHANGED << masterRest, othersOfLoop, mpc, startResult, timeVars >>

\* MasterDrain that takes the signal and leaves pending as it is
MasterDrainNoDiscard ==
    /\ mpc = "drain"
    /\ queue_done # <<>>
    /\ pending' = pending
    /\ drained' = drained \cup {Head(queue_done)}
    /\ queue_done' = Tail(queue_done)
    /\ UNCHANGED << masterRest, othersOfLoop, mpc, startResult, timeVars >>

\* lines 304-305: one iteration of the drain loop
MasterDrain ==
    /\ mpc = "drain"
    /\ queue_done # <<>>
    /\ pending' = pending \ {Head(queue_done)}
    /\ drained' = drained \cup {Head(queue_done)}
    /\ queue_done' = Tail(queue_done)
    /\ UNCHANGED << masterRest, othersOfLoop, mpc, startResult, timeVars >>

\* lines 304, 307-308: DoneChannel is empty; sleep(polling_timeout) begins
MasterSleep ==
    /\ mpc = "drain"
    /\ queue_done = <<>>
    /\ sleepLeft' = PollingTimeout
    /\ mpc' = "sleeping"
    /\ UNCHANGED << masterRest, othersOfLoop, pending, startResult, elapsed,
                    queue_done, drained >>

\* line 308: sleep(polling_timeout) returns
MasterWake ==
    /\ mpc = "sleeping"
    /\ sleepLeft = 0
    /\ mpc' = "while"
    /\ UNCHANGED << masterRest, othersOfLoop, pending, startResult, timeVars,
                    queue_done, drained >>

\* One second of a sleep() of the master passes (the statements between two
\* sleeps take no time on the scale of the timeouts). In the poll loop the
\* clock advances with it; it saturates one past run_time_max, where every
\* later reading compares the same.
Tick ==
    /\ sleepLeft > 0
    /\ sleepLeft' = sleepLeft - 1
    /\ elapsed' = IF mpc \in LoopPcs /\ elapsed <= RunTimeMax
                  THEN elapsed + 1 ELSE elapsed
    /\ UNCHANGED << masterVars, confVars, queue, queue_done, alive,
                    workerVars, sig, fsVars, warnings, enqueued, accepted,
                    emitted, drained, extKilled >>

(***************************************************************************)
(* Master.stop() and the end of main()                                     *)
(***************************************************************************)
stopRest == << res, body, index, indexBuilt, workers, pending, todo,
               startResult, mainResult >>
othersOfStop == << confVars, queue, queue_done, alive, workerVars,
                   fsVars, enqueued, accepted, emitted, drained, extKilled >>

\* MasterStop without the close() calls of lines 315-316
MasterStopNoClose ==
    /\ mpc = "stop"
    /\ elapsed' = 0
    /\ stopCalls' = stopCalls + 1
    /\ closed' = closed
    /\ pos' = 0
    /\ mpc' = "terminate"
    /\ UNCHANGED << stopRest, othersOfStop, sleepLeft, sig, warnings >>

\* lines 313-318: both queues are closed in the master process; `workers`
\* of stop() is self.workers without its None entries, in spawn order (the
\* clock of the poll loop is read no more)
MasterStop ==
    /\ mpc = "stop"
    /\ elapsed' = 0
    /\ stopCalls' = stopCalls + 1
    /\ closed' = TRUE
    /\ pos' = 0
    /\ mpc' = "terminate"
    /\ UNCHANGED << stopRest, othersOfStop, sleepLeft, sig, warnings >>

\* lines 321-323: one iteration of the terminate loop (SIGTERM)
MasterTerminate ==
    /\ mpc = "terminate"
    /\ pos < Cardinality(workers)
    /\ sig' = IF alive[pos] /\ sig[pos] = "none"
              THEN [sig EXCEPT ![pos] = "term"] ELSE sig
    /\ pos' = pos + 1
    /\ UNCHANGED << stopRest, othersOfStop, mpc, closed, stopCalls, sleepLeft,
                    warnings, elapsed >>

\* line 325: sleep(terminate_timeout) begins
MasterGraceSleep ==
    /\ mpc = "terminate"
    /\ pos = Cardinality(workers)
    /\ sleepLeft' = TerminateTimeout
    /\ mpc' = "grace"
    /\ UNCHANGED << stopRest, othersOfStop, pos, closed, stopCalls, sig,
                    warnings, elapsed >>

\* MasterGrace without the sleep of line 325
MasterGraceNoWait ==
    /\ mpc = "grace"
    /\ IF \E w \in workers : alive[w]
       THEN /\ warnings' = warnings \cup {Warning("Some workers did not stop", {})}
            /\ pos' = 0
            /\ mpc' = "kill"
       ELSE /\ mpc' = "exit"
            /\ UNCHANGED << warnings, pos >>
    /\ UNCHANGED << stopRest, othersOfStop, closed, stopCalls, sleepLeft,
                    sig, elapsed >>

\* lines 325-330: the sleep returns; stop() returns if no worker is alive
MasterGrace ==
    /\ mpc = "grace"
    /\ sleepLeft = 0
    /\ IF \E w \in workers : alive[w]
       THEN /\ warnings' = warnings \cup {Warning("Some workers did not stop", {})}
            /\ pos' = 0
            /\ mpc' = "kill"
       ELSE /\ mpc' = "exit"
            /\ UNCHANGED << warnings, pos >>
    /\ UNCHANGED << stopRest, othersOfStop, closed, stopCalls, sleepLeft,
                    sig, elapsed >>

\* lines 331-333: one iteration of the kill loop (SIGKILL); stop() returns
\* after the last one
MasterKill ==
    /\ mpc = "kill"
    /\ pos < Cardinality(workers)
    /\ sig' = IF alive[pos] THEN [sig EXCEPT ![pos] = "kill"] ELSE sig
    /\ pos' = pos + 1
    /\ mpc' = IF pos + 1 = Cardinality(workers) THEN "exit" ELSE "kill"
    /\ UNCHANGED << stopRest, othersOfStop, closed, stopCalls, sleepLeft,
                    warnings, elapsed >>

\* lines 338-341: after the finally block main() returns, or the error of
\* start() goes on to the caller
MainExit ==
    /\ mpc = "exit"
    /\ mainResult' = startResult
    /\ mpc' = "done"
    /\ UNCHANGED << res, body, index, indexBuilt, workers, pending, todo, pos,
                    closed, startResult, stopCalls >>
    /\ UNCHANGED << othersOfStop, sleepLeft, sig, warnings, elapsed >>

(***************************************************************************)
(* Worker.run()                                                            *)
(***************************************************************************)
\* the process of worker w runs; the run is followed until main() has
\* handed its result to the caller
Runs(w) == alive[w] /\ mpc # "done"

\* `data`: the names of the members of the archive that match
\* member_regex, in listing order
RECURSIVE MatchingNames(_)
MatchingNames(members) ==
    IF members = <<>> THEN <<>>
    ELSE IF MatchMember(Head(members).name)
         THEN <<Head(members).name>> \o MatchingNames(Tail(members))
         ELSE MatchingNames(Tail(members))

\* tar.extractall(tmp): every member becomes a file of the directory; a
\* later member replaces an earlier file of the same name
RECURSIVE ExtractAll(_, _)
ExtractAll(members, files) ==
    IF members = <<>> THEN files
    ELSE ExtractAll(Tail(members),
                    {f \in files : f.name # Head(members).name}
                        \cup {Head(members)})

\* (tmp / data_file).open('rb').read()
ReadFile(files, name) == (CHOOSE f \in files : f.name = name).bytes

\* self.queue_done.put(year, block=False), after which the worker goes back
\* to the top of its loop
PutDone(w) ==
    /\ queue_done' = Append(queue_done, wjob[w])
    /\ emitted' = [emitted EXCEPT ![wjob[w]] = @ + 1]
    /\ wjob' = [wjob EXCEPT ![w] = 0]
    /\ wres' = [wres EXCEPT ![w] = 0]
    /\ wpc' = [wpc EXCEPT ![w] = "get"]

othersOfWorker == << masterVars, confVars, timeVars, alive, sig, enqueued,
                     drained, extKilled >>

\* WorkerGet reading the first job without taking it off the queue
WorkerGetNoPop(w) ==
    /\ Runs(w)
    /\ wpc[w] = "get"
    /\ queue # <<>>
    /\ wjob' = [wjob EXCEPT ![w] = Head(queue)]
    /\ queue' = queue
    /\ accepted' = [accepted EXCEPT ![Head(queue)] = @ + 1]
    /\ wpc' = [wpc EXCEPT ![w] = "fetch"]
    /\ UNCHANGED << othersOfWorker, queue_done, wres, wdata, fsVars, warnings,
                    emitted >>

\* line 210: year, filename = self.queue.get(timeout=2, block=True); the
\* Empty of a timeout only restarts the call
WorkerGet(w) ==
    /\ Runs(w)
    /\ wpc[w] = "get"
    /\ queue # <<>>
    /\ wjob' = [wjob EXCEPT ![w] = Head(queue)]
    /\ queue' = Tail(queue)
    /\ accepted' = [accepted EXCEPT ![Head(queue)] = @ + 1]
    /\ wpc' = [wpc EXCEPT ![w] = "fetch"]
    /\ UNCHANGED << othersOfWorker, queue_done, wres, wdata, fsVars, warnings,
                    emitted >>

\* lines 214-216: res = get(url + filename, stream=True)
WorkerFetch(w) ==
    /\ Runs(w)
    /\ wpc[w] = "fetch"
    /\ \E s \in ArchiveStatuses : wres' = [wres EXCEPT ![w] = s]
    /\ wpc' = [wpc EXCEPT ![w] = "status"]
    /\ UNCHANGED << othersOfWorker, queue, queue_done, wjob, wdata, fsVars,
                    warnings, accepted, emitted >>

\* lines 217-220: a non-success status counts as done
WorkerCheckStatus(w) ==
    /\ Runs(w)
    /\ wpc[w] = "status"
    /\ IF ~IsSuccess(wres[w])
       THEN /\ warnings' = warnings \cup {Warning("Cannot download", {wjob[w]})}
            /\ PutDone(w)
       ELSE /\ wpc' = [wpc EXCEPT ![w] = "isfile"]
            /\ UNCHANGED << warnings, queue_done, emitted, wjob, wres >>
    /\ UNCHANGED << othersOfWorker, queue, wdata, fsVars, accepted >>

\* WorkerCheckIsfile without the put of line 226
WorkerCheckIsfileNoSignal(w) ==
    /\ Runs(w)
    /\ wpc[w] = "isfile"
    /\ IF outfile[wjob[w]].isfile /\ ~force
       THEN /\ wjob' = [wjob EXCEPT ![w] = 0]
            /\ wres' = [wres EXCEPT ![w] = 0]
            /\ wpc' = [wpc EXCEPT ![w] = "get"]
            /\ UNCHANGED << outfile, queue_done, emitted >>
       ELSE /\ outfile' = IF outfile[wjob[w]].isfile /\ force
                          THEN [outfile EXCEPT ![wjob[w]] = Absent]
                          ELSE outfile
            /\ wpc' = [wpc EXCEPT ![w] = "extract"]
            /\ UNCHANGED << queue_done, emitted, wjob, wres >>
    /\ UNCHANGED << othersOfWorker, queue, wdata, tmpdir, warnings, accepted >>

\* WorkerCheckIsfile without the remove(result) of line 231
WorkerCheckIsfileKeep(w) ==
    /\ Runs(w)
    /\ wpc[w] = "isfile"
    /\ IF outfile[wjob[w]].isfile /\ ~force
       THEN /\ PutDone(w)
            /\ UNCHANGED outfile
       ELSE /\ UNCHANGED outfile
            /\ wpc' = [wpc EXCEPT ![w] = "extract"]
            /\ UNCHANGED << queue_done, emitted, wjob, wres >>
    /\ UNCHANGED << othersOfWorker, queue, wdata, tmpdir, warnings, accepted >>

\* WorkerCheckIsfile with the test of conf.force inverted
WorkerCheckIsfileForceInverted(w) ==
    /\ Runs(w)
    /\ wpc[w] = "isfile"
    /\ IF outfile[wjob[w]].isfile /\ force
       THEN /\ PutDone(w)
            /\ UNCHANGED outfile
       ELSE /\ outfile' = IF outfile[wjob[w]].isfile /\ ~force
                          THEN [outfile EXCEPT ![wjob[w]] = Absent]
                          ELSE outfile
            /\ wpc' = [wpc EXCEPT ![w] = "extract"]
            /\ UNCHANGED << queue_done, emitted, wjob, wres >>
    /\ UNCHANGED << othersOfWorker, queue, wdata, tmpdir, warnings, accepted >>

\* lines 222-231: the output exists: skip the job, or remove the file
WorkerCheckIsfile(w) ==
    /\ Runs(w)
    /\ wpc[w] = "isfile"
    /\ IF outfile[wjob[w]].isfile /\ ~force
       THEN /\ PutDone(w)
            /\ UNCHANGED outfile
       ELSE /\ outfile' = IF outfile[wjob[w]].isfile /\ force
                          THEN [outfile EXCEPT ![wjob[w]] = Absent]
                          ELSE outfile
            /\ wpc' = [wpc EXCEPT ![w] = "extract"]
            /\ UNCHANGED << queue_done, emitted, wjob, wres >>
    /\ UNCHANGED << othersOfWorker, queue, wdata, tmpdir, warnings, accepted >>

\* WorkerExtract without the filter of line 240: `data` names every member
WorkerExtractNoFilter(w) ==
    /\ Runs(w)
    /\ wpc[w] = "extract"
    /\ tmpdir' = [tmpdir EXCEPT ![wjob[w]] =
                    [isdir |-> TRUE,
                     files |-> ExtractAll(Archive(wjob[w]), @.files)]]
    /\ wdata' = [wdata EXCEPT ![w] =
                   [i \in 1..Len(Archive(wjob[w])) |-> Archive(wjob[w])[i].name]]
    /\ wpc' = [wpc EXCEPT ![w] = "open"]
    /\ UNCHANGED << othersOfWorker, queue, queue_done, wjob, wres, outfile,
                    warnings, accepted, emitted >>

\* lines 233-241: the temp directory is made, the body is read, and every
\* member of the tarball is extracted; `data` names the matching members
WorkerExtract(w) ==
    /\ Runs(w)
    /\ wpc[w] = "extract"
    /\ tmpdir' = [tmpdir EXCEPT ![wjob[w]] =
                    [isdir |-> TRUE,
                     files |-> ExtractAll(Archive(wjob[w]), @.files)]]
    /\ wdata' = [wdata EXCEPT ![w] = MatchingNames(Archive(wjob[w]))]
    /\ wpc' = [wpc EXCEPT ![w] = "open"]
    /\ UNCHANGED << othersOfWorker, queue, queue_done, wjob, wres, outfile,
                    warnings, accepted, emitted >>

\* WorkerOpen with the put of line 250 moved before the appends
WorkerOpenEarlyPut(w) ==
    /\ Runs(w)
    /\ wpc[w] = "open"
    /\ outfile' = [outfile EXCEPT ![wjob[w]] =
                     [isfile |-> TRUE, bytes |-> @.bytes]]
    /\ queue_done' = Append(queue_done, wjob[w])
    /\ emitted' = [emitted EXCEPT ![wjob[w]] = @ + 1]
    /\ wpc' = [wpc EXCEPT ![w] = IF wdata[w] = <<>> THEN "put" ELSE "write"]
    /\ UNCHANGED << othersOfWorker, queue, wjob, wres, wdata,
                    tmpdir, warnings, accepted >>

\* lines 243-244: open(result, 'ab') creates the file if there is none
WorkerOpen(w) ==
    /\ Runs(w)
    /\ wpc[w] = "open"
    /\ outfile' = [outfile EXCEPT ![wjob[w]] =
                     [isfile |-> TRUE, bytes |-> @.bytes]]
    /\ wpc' = [wpc EXCEPT ![w] = IF wdata[w] = <<>> THEN "put" ELSE "write"]
    /\ UNCHANGED << othersOfWorker, queue, queue_done, wjob, wres, wdata,
                    tmpdir, warnings, accepted, emitted >>

\* lines 245-248: one iteration of `for data_file in data`
WorkerWrite(w) ==
    /\ Runs(w)
    /\ wpc[w] = "write"
    /\ outfile' = [outfile EXCEPT ![wjob[w]] =
                     [isfile |-> TRUE,
                      bytes |-> Append(@.bytes,
                                       ReadFile(tmpdir[wjob[w]].files,
                                                Head(wdata[w])))]]
    /\ wdata' = [wdata EXCEPT ![w] = Tail(@)]
    /\ wpc' = [wpc EXCEPT ![w] = IF Tail(wdata[w]) = <<>> THEN "put" ELSE "write"]
    /\ UNCHANGED << othersOfWorker, queue, queue_done, wjob, wres, tmpdir,
                    warnings, accepted, emitted >>

\* line 250: the job is done
WorkerPut(w) ==
    /\ Runs(w)
    /\ wpc[w] = "put"
    /\ PutDone(w)
    /\ UNCHANGED << othersOfWorker, queue, wdata, fsVars, warnings, accepted >>

\* where an exception can leave run(): get() (line 216, no connection),
\* tar_open/extractall (lines 238-241, a broken archive) and the read of an
\* extracted member (line 247)
CrashPcs == {"fetch", "extract", "write"}

dieRest == << masterVars, confVars, timeVars, queue, queue_done, sig, fsVars,
              warnings, enqueued, accepted, emitted, drained >>

\* the process of worker w ends wherever it is; the job it holds (wjob)
\* stays unfinished and its locals are gone
Die(w) ==
    /\ alive' = [alive EXCEPT ![w] = FALSE]
    /\ wpc' = [wpc EXCEPT ![w] = "dead"]
    /\ wres' = [wres EXCEPT ![w] = 0]
    /\ wdata' = [wdata EXCEPT ![w] = <<>>]
    /\ UNCHANGED wjob

\* an unhandled exception ends the worker process
WorkerCrash(w) ==
    /\ Runs(w)
    /\ wpc[w] \in CrashPcs
    /\ Die(w)
    /\ UNCHANGED << dieRest, extKilled >>

\* the SIGTERM of terminate() or the SIGKILL of kill() ends the process
WorkerSignalled(w) ==
    /\ Runs(w)
    /\ sig[w] # "none"
    /\ Die(w)
    /\ UNCHANGED << dieRest, extKilled >>

\* the environment kills a worker process while start() runs
EnvKill(w) ==
    /\ Runs(w)
    /\ mpc \in StartPcs
    /\ Cardinality(extKilled) < MaxExtKills
    /\ Die(w)
    /\ extKilled' = extKilled \cup {w}
    /\ UNCHANGED dieRest

MasterStep ==
    \/ MasterGetIndex
    \/ MasterCheckIndex
    \/ MasterSpawn
    \/ MasterPending
    \/ MasterEnqueue
    \/ MasterClock
    \/ MasterWhile
    \/ MasterDeadline
    \/ MasterLiveness
    \/ MasterDrain
    \/ MasterSleep
    \/ MasterWake
    \/ MasterStop
    \/ MasterTerminate
    \/ MasterGraceSleep
    \/ MasterGrace
    \/ MasterKill
    \/ MainExit

WorkerStep(w) ==
    \/ WorkerGet(w)
    \/ WorkerFetch(w)
    \/ WorkerCheckStatus(w)
    \/ WorkerCheckIsfile(w)
    \/ WorkerExtract(w)
    \/ WorkerOpen(w)
    \/ WorkerWrite(w)
    \/ WorkerPut(w)
    \/ WorkerCrash(w)
    \/ WorkerSignalled(w)
    \/ EnvKill(w)

Next ==
    \/ MasterStep
    \/ \E w \in Workers : WorkerStep(w)
    \/ Tick

Spec == Init /\ [][Next]_vars

\* the runs of one year over every tarball of MemberLists
AggSpec == AggInit /\ [][Next]_vars

\* The master process is scheduled and time passes; nothing is assumed of
\* the workers, which may idle, hang in a download or die.
FairSpec == Spec /\ WF_vars(MasterStep) /\ WF_vars(Tick)

(***************************************************************************)
(* Properties                                                              *)
(***************************************************************************)
Available == years \cap index

\* an HTTP status outside the success range 200..299
OutsideSuccessRange(status) == status \notin 200..299

\* C1: start() returns success only with PendingSet empty; PendingSet is
\* initialised to the requested years that are keys of the index and loses
\* a year only when the master takes a CompletionSignal of that year from
\* DoneChannel; so at success every requested-and-indexed year has had a
\* CompletionSignal emitted by a worker.
C1_SuccessOnlyWhenAllSignalled ==
    [][ /\ startResult' = "success" =>
             /\ pending' = {}
             /\ \A y \in Available' : emitted'[y] >= 1 /\ y \in drained'
        /\ mpc = "pending" /\ mpc' # "pending" => pending' = Available
        /\ \A y \in pending \ pending' :
             /\ mpc = "drain"
             /\ queue_done # <<>>
             /\ Head(queue_done) = y
             /\ queue_done' = Tail(queue_done)
             /\ emitted[y] >= 1
      ]_vars

C1_Witness ==
    /\ startResult = "success"
    /\ Available = Years
    /\ \A y \in Years : emitted[y] = 1

\* C2: once the poll loop is entered, start() ends, whatever the workers
\* do: it returns success or raises DeadlineExceededError or
\* WorkerDiedError, and its outcome is set once.
C2_StartTerminates ==
    /\ (mpc \in LoopPcs) ~>
          (startResult \in {"success", "DeadlineExceededError", "WorkerDiedError"})
    /\ [][startResult # "none" => startResult' = startResult]_vars

C2_Witness ==
    /\ startResult = "DeadlineExceededError"
    /\ \E w \in Workers : alive[w] /\ wpc[w] = "fetch"
    /\ \E w \in Workers : alive[w] /\ wpc[w] = "get"

\* C3: in every run of main() stop() is called exactly once, only after
\* start() has ended, whatever its outcome, and the outcome of start()
\* reaches the caller of main() only after stop() has run.
C3_StopOnceAfterStart ==
    /\ stopCalls <= 1
    /\ mpc \in StartPcs => stopCalls = 0 /\ startResult = "none"
    /\ stopCalls = 1 => startResult # "none"
    /\ mpc \in {"exit", "done"} => stopCalls = 1
    /\ mpc = "done" <=> mainResult # "none"
    /\ mainResult # "none" => mainResult = startResult
    /\ startResult \in {"none", "success", "IndexFetchError", "NoWorkError",
                        "DeadlineExceededError", "WorkerDiedError"}

C3_Witness ==
    /\ mainResult = "IndexFetchError"
    /\ workers = {}
    /\ stopCalls = 1

\* C4 as stated: at a DeadlineExceededError PendingSet is non-empty and no
\* worker has emitted a CompletionSignal for any year still in it.
C4_Original ==
    startResult = "DeadlineExceededError" =>
        /\ pending # {}
        /\ \A y \in pending : emitted[y] = 0

\* C4 amended: at a DeadlineExceededError PendingSet is non-empty and holds
\* exactly the requested-and-indexed years of which the master has drained
\* no CompletionSignal (a worker may have emitted one that is still in
\* DoneChannel).
C4_DeadlinePendingUndrained ==
    startResult = "DeadlineExceededError" =>
        /\ pending # {}
        /\ pending = Available \ drained

C4_Witness ==
    /\ startResult = "DeadlineExceededError"
    /\ \E y \in pending : emitted[y] = 1 /\ queue_done = <<y>>

\* C5 as stated: a worker that dies while a year is pending (here: holding
\* the unfinished job of that year) makes the run end with WorkerDiedError
\* and with nothing else.
C5_Original ==
    (startResult # "none" /\ \E w \in workers : ~alive[w] /\ wjob[w] \in pending)
        => startResult = "WorkerDiedError"

\* C5 amended: every liveness check executed while some worker is dead
\* fails the run with WorkerDiedError, and WorkerDiedError is raised only
\* then; a run in which a worker died holding an unfinished job never
\* reports success (it ends with WorkerDiedError or, when the deadline check
\* fires first, DeadlineExceededError); a dead worker stays dead, no worker
\* is added and no job is enqueued twice.
C5_DeadWorkerFailsLivenessCheck ==
    [][ /\ (mpc = "liveness" /\ mpc' # "liveness" /\ \E w \in workers : ~alive[w])
             => startResult' = "WorkerDiedError"
        /\ (startResult = "none" /\ startResult' = "WorkerDiedError")
             => mpc = "liveness" /\ \E w \in workers : ~alive[w]
        /\ (\E w \in workers' : ~alive'[w] /\ wjob'[w] # 0)
             => startResult' \in {"none", "WorkerDiedError", "DeadlineExceededError"}
        /\ \A w \in workers : ~alive[w] => ~alive'[w] /\ wpc'[w] = "dead"
        /\ mpc \notin {"spawn"} => workers' = workers
        /\ \A y \in Years : enqueued'[y] <= 1
      ]_vars

C5_Witness ==
    /\ startResult = "WorkerDiedError"
    /\ mpc = "stop"
    /\ \E w \in workers : ~alive[w] /\ wjob[w] \in pending
    /\ \E w \in workers : alive[w]

\* C6: every job a worker has dequeued is either still held by that worker
\* (being processed, or the worker died on it) or has been answered by
\* exactly one CompletionSignal of its year, on each of the three paths
\* (fetch failure, skip, aggregation); no signal exists for a year whose job
\* no worker dequeued: signals emitted <= jobs accepted <= jobs enqueued.
C6_SignalAccounting ==
    \A y \in Years :
        /\ accepted[y] = emitted[y] + Cardinality({w \in Workers : wjob[w] = y})
        /\ emitted[y] <= accepted[y]
        /\ accepted[y] <= enqueued[y]
        /\ \A w \in Workers : alive[w] /\ wpc[w] = "get" => wjob[w] = 0

C6_Witness ==
    \E y1, y2 \in Years :
        /\ y1 # y2
        /\ accepted[y1] = 1 /\ emitted[y1] = 1
        /\ accepted[y2] = 1 /\ emitted[y2] = 1
        /\ Warning("Cannot download", {y1}) \in warnings
        /\ outfile[y2].bytes = <<1>>
        /\ \A w \in Workers : wjob[w] = 0

\* C7 as stated: with the requested years only partly in the index,
\* PendingSet starts as the available years, a warning names the
\* unavailable requested years, one job per available year is enqueued, and
\* the run can only succeed with every available year signalled.
C7_Original ==
    (indexBuilt /\ Available # {} /\ years \ index # {}) =>
        /\ mpc = "enqueue" /\ todo = pending => pending = Available
        /\ mpc \notin {"spawn", "pending"} =>
              \E wn \in warnings :
                  wn.msg = "Cannot fetch" /\ (years \ index) \subseteq wn.arg
        /\ mpc \notin {"spawn", "pending", "enqueue"} =>
              \A y \in Years : enqueued[y] = IF y \in Available THEN 1 ELSE 0
        /\ startResult = "success" => \A y \in Available : emitted[y] = 1

\* C8: when no requested year is a key of the index, start() fails with
\* NoWorkError straight from the computation of PendingSet: no job is ever
\* enqueued and the poll loop is never entered; all workers_count workers
\* were spawned before and are idle and alive at that point (unless the
\* environment killed one), and the master signals no worker before stop().
C8_NoWorkError ==
    /\ (indexBuilt /\ Available = {}) =>
          /\ mpc \notin {"enqueue", "clock"} \cup LoopPcs
          /\ mpc \notin {"spawn", "pending"} => startResult = "NoWorkError"
          /\ queue = <<>>
          /\ \A y \in Years : enqueued[y] = 0 /\ accepted[y] = 0
    /\ startResult = "NoWorkError" =>
          /\ indexBuilt /\ Available = {}
          /\ workers = Workers
          /\ \A w \in Workers : wjob[w] = 0
          /\ mpc = "stop" =>
                \A w \in Workers :
                    \/ alive[w] /\ wpc[w] = "get"
                    \/ w \in extKilled
    /\ \A w \in Workers : sig[w] # "none" => stopCalls = 1

C8_Witness ==
    /\ startResult = "NoWorkError"
    /\ mpc = "stop"
    /\ years \ index = years
    /\ \A w \in Workers : alive[w] /\ wpc[w] = "get"
    /\ Warning("Cannot fetch", years) \in warnings

\* C9 as stated: for every index response whose status is outside 200..299
\* start() fails with IndexFetchError before a worker is spawned, the index
\* is built or a job is enqueued.
C9_Original ==
    (res # 0 /\ OutsideSuccessRange(res) /\ mpc # "check_index") =>
        /\ startResult = "IndexFetchError"
        /\ workers = {}
        /\ ~indexBuilt
        /\ \A y \in Years : enqueued[y] = 0

\* C10: a worker whose archive GET returned a non-success status records a
\* warning, emits the CompletionSignal of the year, touches neither the
\* output file nor the temp directory and goes back to dequeuing; the
\* master removes a drained year from PendingSet whatever the job's path
\* was, and no job is enqueued again.
C10_FetchFailureCountsAsDone ==
    [][ /\ \A w \in Workers :
             (alive[w] /\ wpc[w] = "status" /\ OutsideSuccessRange(wres[w])
                 /\ alive'[w] /\ wpc'[w] # "status")
               => /\ Warning("Cannot download", {wjob[w]}) \in warnings'
                  /\ queue_done' = Append(queue_done, wjob[w])
                  /\ emitted'[wjob[w]] = emitted[wjob[w]] + 1
                  /\ outfile' = outfile
                  /\ tmpdir' = tmpdir
                  /\ wpc'[w] = "get"
                  /\ queue' = queue
                  /\ enqueued' = enqueued
        /\ \A y \in Years :
             Warning("Cannot download", {y}) \in warnings'
               => /\ outfile'[y] \in {Absent, Stale}
                  /\ tmpdir'[y] = NoDir
                  /\ enqueued'[y] = 1
        /\ (mpc = "drain" /\ queue_done # <<>> /\ Len(queue_done') < Len(queue_done))
               => pending' = pending \ {Head(queue_done)}
      ]_vars

C10_Witness ==
    \E y \in Years :
        /\ Warning("Cannot download", {y}) \in warnings
        /\ emitted[y] = 1
        /\ y \in drained
        /\ y \notin pending
        /\ outfile[y] = Absent
        /\ tmpdir[y] = NoDir
        /\ startResult = "success"

\* C11 as stated: whenever start() has returned success, the aggregate
\* output file of every requested year that the index offers exists.
C11_Original ==
    startResult = "success" => \A y \in Available : outfile[y].isfile

\* a worker holds a job whose output file exists, force being off, and has
\* not yet passed the test of line 224
BeforeSkip(w) ==
    /\ alive[w]
    /\ wpc[w] \in {"fetch", "status", "isfile"}
    /\ ~force
    /\ outfile[wjob[w]].isfile

\* C12 as stated: when force is false and the output file of the year
\* exists, the worker issues no request and reads no body, creates no temp
\* directory, leaves the output file as it is, and still emits the
\* CompletionSignal of the year.
C12_Original ==
    [][ \A w \in Workers :
          (BeforeSkip(w) /\ alive'[w]) =>
              /\ wres'[w] = 0
              /\ outfile'[wjob[w]] = outfile[wjob[w]]
              /\ tmpdir'[wjob[w]] = NoDir
              /\ wjob'[w] # wjob[w] =>
                    /\ queue_done' = Append(queue_done, wjob[w])
                    /\ emitted'[wjob[w]] = emitted[wjob[w]] + 1
      ]_vars

\* C12: when force is false and the output file of the year exists, the
\* worker first issues the archive GET and holds its response when it tests
\* the path; it never reads the body or extracts (no temp directory), it
\* leaves the output file as it is, and unless the process ends it goes
\* back to dequeuing by emitting the one CompletionSignal of the year.
C12_SkipAfterRequest ==
    [][ \A w \in Workers :
          BeforeSkip(w) =>
              /\ wpc[w] = "isfile" => wres[w] \in 200..299
              /\ outfile'[wjob[w]] = outfile[wjob[w]]
              /\ tmpdir[wjob[w]] = NoDir
              /\ tmpdir'[wjob[w]] = NoDir
              /\ wpc'[w] \in {"fetch", "status", "isfile", "get", "dead"}
              /\ wpc'[w] = "get" =>
                    /\ emitted[wjob[w]] = 0
                    /\ queue_done' = Append(queue_done, wjob[w])
                    /\ emitted'[wjob[w]] = 1
                    /\ wjob'[w] = 0
      ]_vars

C12_Witness ==
    \E y \in Years :
        /\ ~force
        /\ outfile0[y] = Stale
        /\ outfile[y] = Stale
        /\ tmpdir[y] = NoDir
        /\ accepted[y] = 1
        /\ emitted[y] = 1
        /\ Warning("Cannot download", {y}) \notin warnings
        /\ \A w \in Workers : wjob[w] # y

\* the contents of the members of a tarball whose names match member_regex,
\* one after the other in listing order
RECURSIVE MatchedBytes(_)
MatchedBytes(members) ==
    IF members = <<>> THEN <<>>
    ELSE IF MatchMember(Head(members).name)
         THEN <<Head(members).bytes>> \o MatchedBytes(Tail(members))
         ELSE MatchedBytes(Tail(members))

\* the bytes of a file, as a set
Content(file) == {file.bytes[i] : i \in 1..Len(file.bytes)}

\* C13: when force is true and the output file of a year existed, the
\* worker that fetched the archive deletes the old file before it appends
\* anything, so that whenever a worker is past the test of the path nothing
\* of the old file is left, and once the CompletionSignal of the year is
\* emitted the file holds exactly the contents of the matching members of
\* this run, in any interleaving of the workers and the master.
C13_ForceReplaces ==
    \A y \in Years :
        (force /\ outfile0[y] = Stale) =>
            /\ \A w \in Workers :
                 (wjob[w] = y /\ wpc[w] \in {"extract", "open"})
                    => outfile[y].bytes = <<>>
            /\ \A w \in Workers :
                 (wjob[w] = y /\ wpc[w] \in {"write", "put"})
                    => Content(outfile[y]) \cap Content(Stale) = {}
            /\ (emitted[y] = 1 /\ Warning("Cannot download", {y}) \notin warnings)
                 => outfile[y] = [isfile |-> TRUE,
                                  bytes |-> MatchedBytes(Archive(y))]

C13_Witness ==
    \E y \in Years :
        /\ force
        /\ outfile0[y] = Stale
        /\ emitted[y] = 1
        /\ Warning("Cannot download", {y}) \notin warnings
        /\ outfile[y] = [isfile |-> TRUE, bytes |-> <<1>>]
        /\ \E w \in Workers : alive[w] /\ wjob[w] \notin {0, y}

\* the job of year y is over and went through the extraction: its signal is
\* emitted, the archive was fetched, and the output was not skipped
Aggregated(y) ==
    /\ emitted[y] = 1
    /\ Warning("Cannot download", {y}) \notin warnings
    /\ force \/ outfile0[y] = Absent

\* no two members of the tarball have the same name
DistinctNames(members) ==
    \A i, j \in 1..Len(members) :
        members[i].name = members[j].name => i = j

\* the content of the last member of the tarball that has the name
LastBytes(members, name) ==
    LET last == CHOOSE i \in 1..Len(members) :
                    /\ members[i].name = name
                    /\ \A j \in 1..Len(members) :
                         members[j].name = name => j <= i
    IN  members[last].bytes

\* for each member whose name matches, in listing order, the content of the
\* file of that name after the extraction of the whole tarball
RECURSIVE ExtractedBytes(_, _)
ExtractedBytes(members, rest) ==
    IF rest = <<>> THEN <<>>
    ELSE IF MatchMember(Head(rest).name)
         THEN <<LastBytes(members, Head(rest).name)>>
                  \o ExtractedBytes(members, Tail(rest))
         ELSE ExtractedBytes(members, Tail(rest))

\* C14 as stated: for every archive the bytes appended to the output are
\* the contents of exactly the members whose names match member_regex, one
\* after the other in archive listing order, the other members adding
\* nothing.
C14_Original ==
    \A y \in Years :
        Aggregated(y) =>
            outfile[y] = [isfile |-> TRUE, bytes |-> MatchedBytes(Archive(y))]

\* C14: for every archive the bytes appended to the output are, for each
\* member whose name matches member_regex at its start, in archive listing
\* order, the content of the extracted file of that name, the other members
\* adding nothing; when the names of the members are distinct this is the
\* concatenation of the contents of the matching members in listing order;
\* while the worker appends, the file holds the beginning of these bytes.
C14_AppendsExtractedFiles ==
    \A y \in Years :
        LET expected == ExtractedBytes(Archive(y), Archive(y)) IN
        /\ DistinctNames(Archive(y)) => expected = MatchedBytes(Archive(y))
        /\ Aggregated(y) => outfile[y] = [isfile |-> TRUE, bytes |-> expected]
        /\ \A w \in Workers :
             (wjob[w] = y /\ wpc[w] \in {"write", "put"}) =>
                 /\ Len(outfile[y].bytes) + Len(wdata[w]) = Len(expected)
                 /\ outfile[y].bytes = SubSeq(expected, 1, Len(outfile[y].bytes))

C14_Witness ==
    \E y \in Years :
        /\ Aggregated(y)
        /\ Len(Archive(y)) = 2
        /\ ~DistinctNames(Archive(y))
        /\ outfile[y].bytes = <<2, 2>>

\* One step of a run seen from stop(): the terminate loop has signalled
\* every worker that is alive when the sleep begins; the sleep lasts
\* terminate_timeout; after it stop() returns if no worker is alive and
\* otherwise records the warning and kills; a kill is sent only in the kill
\* loop, to a worker that is alive and was sent terminate; the kill loop
\* ends with every worker that is alive sent kill; stop() changes no result
\* of start() and can always take its next step.
TwoPhaseStep ==
    /\ (mpc = "terminate" /\ mpc' = "grace") =>
          /\ sleepLeft' = TerminateTimeout
          /\ \A w \in workers : alive[w] => sig[w] = "term"
    /\ (mpc = "grace" /\ mpc' # "grace") =>
          /\ sleepLeft = 0
          /\ IF \E w \in workers : alive[w]
             THEN /\ mpc' = "kill"
                  /\ Warning("Some workers did not stop", {}) \in warnings'
             ELSE /\ mpc' = "exit"
                  /\ warnings' = warnings
          /\ sig' = sig
    /\ \A w \in Workers :
          sig'[w] # sig[w] =>
              /\ alive[w]
              /\ w \in workers
              /\ \/ mpc = "terminate" /\ sig[w] = "none" /\ sig'[w] = "term"
                 \/ /\ mpc = "kill" /\ sig[w] = "term" /\ sig'[w] = "kill"
                    /\ Warning("Some workers did not stop", {}) \in warnings
    /\ (mpc = "kill" /\ mpc' = "exit") =>
          \A w \in workers : alive'[w] => sig'[w] = "kill"
    /\ mpc \in StopPcs =>
          /\ startResult' = startResult
          /\ mpc' \in StopPcs \cup {"exit"}
          /\ ENABLED (MasterStep \/ Tick)

\* C15 as stated: stop() sends terminate to every worker alive, waits
\* terminate_timeout, and only then, if a worker is still alive, kills every
\* worker still alive and records a warning; it never raises, whatever state
\* start() left; and when stop() returns no worker is left alive.
C15_Original ==
    [][ /\ TwoPhaseStep
        /\ mpc' = "exit" => \A w \in Workers : ~alive'[w]
      ]_vars

\* C15: stop() sends terminate to every worker alive, waits
\* terminate_timeout, and only then, if a worker is still alive, kills every
\* worker still alive and records a warning; it never raises, whatever state
\* start() left; and when stop() returns every worker still alive has been
\* sent the kill signal, which may not have ended the process yet.
C15_TwoPhaseStop ==
    [][ /\ TwoPhaseStep
        /\ mpc' = "exit" => \A w \in Workers : alive'[w] => sig'[w] = "kill"
      ]_vars

C15_Witness ==
    /\ mpc = "exit"
    /\ stopCalls = 1
    /\ Warning("Some workers did not stop", {}) \in warnings
    /\ \E w \in workers : alive[w] /\ sig[w] = "kill"
    /\ \E w \in workers : ~alive[w]

\* C16 as stated: after stop() has closed both channels no worker dequeues
\* a job from JobChannel and no worker puts a CompletionSignal on
\* DoneChannel.
C16_Original ==
    [][ closed => /\ accepted' = accepted
                  /\ emitted' = emitted
                  /\ queue' = queue
                  /\ queue_done' = queue_done
      ]_vars

\* C16: stop() closes both channels before it signals any worker and they
\* stay closed; from then on the master neither enqueues a job nor drains
\* a signal, and the channels change only by a worker that is still alive
\* dequeuing the first job or putting the signal of its job.
C16_MasterLeavesChannels ==
    [][ /\ (mpc \in (StopPcs \ {"stop"}) \cup {"exit", "done"}) => closed
        /\ (~closed /\ closed') => (mpc = "stop" /\ \A w \in Workers : sig[w] = "none")
        /\ closed =>
              /\ closed'
              /\ enqueued' = enqueued
              /\ drained' = drained
              /\ pending' = pending
              /\ queue' # queue =>
                    \E w \in Workers :
                        /\ alive[w] /\ wpc[w] = "get"
                        /\ wjob'[w] = Head(queue)
                        /\ queue' = Tail(queue)
              /\ queue_done' # queue_done =>
                    \E w \in Workers :
                        /\ alive[w] /\ wjob[w] # 0
                        /\ queue_done' = Append(queue_done, wjob[w])
                        /\ emitted'[wjob[w]] = emitted[wjob[w]] + 1
      ]_vars

C16_Witness ==
    /\ closed
    /\ mpc \in StopPcs
    /\ queue # <<>>
    /\ \E w \in Workers : alive[w] /\ wpc[w] = "get"
    /\ \E w \in Workers : alive[w] /\ wpc[w] = "put"

\* how many jobs of year y are in JobChannel
Queued(y) == Cardinality({i \in 1..Len(queue) : queue[i] = y})

\* the workers whose process is in the middle of the job of year y
Processing(y) == {w \in Workers : alive[w] /\ wjob[w] = y}

\* C17: in every reachable state a year has at most one outstanding job,
\* queued or being processed: the master enqueues a year at most once and
\* only if it is requested and in the index, a job is dequeued by at most
\* one worker, and no two workers hold the same year (so none writes the
\* output file or the temp directory of another's year).
C17_OneJobPerYear ==
    /\ \A y \in Years :
          /\ Queued(y) + Cardinality(Processing(y)) <= 1
          /\ enqueued[y] <= 1
          /\ accepted[y] <= 1
          /\ enqueued[y] = 1 => y \in Available
          /\ Queued(y) + accepted[y] = enqueued[y]
    /\ \A v, w \in Workers :
          (v # w /\ wjob[v] # 0) => wjob[v] # wjob[w]

C17_Witness ==
    /\ \A w \in Workers : alive[w] /\ wpc[w] = "write"
    /\ wjob[0] # wjob[1]
    /\ \A y \in Years : enqueued[y] = 1 /\ accepted[y] = 1

\* C18 as stated: no worker dequeues a job from JobChannel until the
\* master has finished enqueuing the jobs of all pending years.
C18_Original ==
    (\E y \in Years : accepted[y] > 0) =>
        (mpc # "enqueue" /\ \A y \in Available : enqueued[y] = 1)

\* C18: the workers are spawned before the enqueue loop and may dequeue a
\* job as soon as it is put, while the master still enqueues other years;
\* no job is dequeued before the loop begins, a worker dequeues only a job
\* the master has put, and when the loop is over every pending year has
\* been enqueued exactly once.
C18_DequeueDuringEnqueue ==
    /\ mpc \in {"get_index", "check_index", "spawn", "pending"} =>
          \A y \in Years : enqueued[y] = 0 /\ accepted[y] = 0
    /\ mpc = "enqueue" =>
          /\ workers = Workers
          /\ todo # {}
          /\ \A y \in Years : enqueued[y] = (IF y \in pending \ todo THEN 1 ELSE 0)
    /\ \A y \in Years : accepted[y] <= enqueued[y] /\ enqueued[y] <= 1
    /\ mpc \in {"clock"} \cup LoopPcs =>
          \A y \in Years : enqueued[y] = (IF y \in Available THEN 1 ELSE 0)

C18_Witness ==
    /\ mpc = "enqueue"
    /\ todo # {}
    /\ \E y \in Years : accepted[y] = 1
    /\ \E w \in Workers : alive[w] /\ wjob[w] # 0

\* C20: whenever start() has returned success no work is in flight:
\* JobChannel is empty and no worker is between the dequeue of a job and
\* the put of its signal, every worker alive waits for a job, and each
\* output file is either the one the run found or a complete aggregate; so
\* the terminate and kill signals of stop() reach idle workers only.
C20_SuccessLeavesNoWork ==
    startResult = "success" =>
        /\ queue = <<>>
        /\ queue_done = <<>>
        /\ \A w \in Workers :
              /\ wjob[w] = 0
              /\ alive[w] => wpc[w] = "get"
              /\ wdata[w] = <<>>
        /\ \A y \in Years :
              \/ outfile[y] = outfile0[y]
              \/ outfile[y] = [isfile |-> TRUE,
                               bytes |-> ExtractedBytes(Archive(y), Archive(y))]

C20_Witness ==
    /\ startResult = "success"
    /\ mpc = "exit"
    /\ \E w \in Workers : sig[w] = "kill"
    /\ \E w \in Workers : sig[w] = "term" /\ ~alive[w]
    /\ \A y \in Years : outfile[y] = [isfile |-> TRUE, bytes |-> <<1>>]
    /\ \E y \in Years : outfile0[y] = Stale

====
